---- MODULE Spec2Model ----
(***************************************************************************)
(* Model of the field supplement service (prepareField,                    *)
(* supplementByCreate, createReference) and of the aggregation service     *)
(* (performAggregation, performGroupedAggregation) of teable.              *)
(*                                                                         *)
(* An optional value is a sequence of length 0 or 1 (<<>> is null or       *)
(* undefined); an optional string is the string Undefined when absent.     *)
(***************************************************************************)
EXTENDS Integers, Sequences, FiniteSets, TLC

VARIABLES
    db,             \* the committed store: field rows, reference rows, columns
    tx,             \* the writes pending in the open transaction
    snapshot,       \* the committed store as it was when the transaction began
    pc,             \* position of the field-creation request
    tableId,        \* the table the created field belongs to
    fieldRo,        \* the field definition given to prepareField
    batchFieldRos,  \* the other definitions of the same batch
    prepared,       \* what prepareField returned: [field, error]
    symmetricField, \* what supplementByCreate returned (optional)
    thrown,         \* the error that aborted the transaction (optional)
    aggPc,          \* position of the aggregation request
    aggRows,        \* the rows of the aggregated table
    statisticFields,\* the requested (fieldId, statisticFunc) pairs (optional)
    groupBy,        \* the requested group fields (optional)
    aggregations,   \* the entries built from the ungrouped query
    aggregationByFieldId, \* keyBy(aggregations, 'fieldId'), merged into per level
    aggLevel,       \* the loop index i of performGroupedAggregation
    queries,        \* the aggregate queries issued, in order
    aggResult,      \* what performAggregation returned (optional)
    filter,         \* the filter of the request (optional)
    search,         \* the search of the request: <<value, field, apply>> (optional)
    hiddenFields,   \* the fields whose column meta of the view says hidden
    countPc,        \* position of the row-count request
    queryRo,        \* the query of the row-count request (optional)
    rowCount,       \* what performRowCount returned (optional)
    fmtValue,       \* the value given to formatConvertValue
    fmtFunc,        \* the statistic function given to formatConvertValue (optional)
    fmtResult,      \* what formatConvertValue returned (optional)
    indexPc,        \* position of the search-index request
    indexRo,        \* the query of the search-index request (optional)
    viewColumnMeta, \* the column meta of the view (optional)
    projection,     \* the projection of the search-index request (optional)
    located,        \* the result of the first query of the request (optional)
    deletedIds,     \* the ids of the records deleted since the first query
    recordIndex     \* what getRecordIndexBySearchOrder returned (optional)

fieldVars == <<db, tx, snapshot, pc, tableId, fieldRo, batchFieldRos, prepared,
               symmetricField, thrown>>
aggVars == <<aggPc, aggRows, statisticFields, groupBy, aggregations,
             aggregationByFieldId, aggLevel, queries, aggResult>>
searchVars == <<filter, search, hiddenFields, countPc, queryRo, rowCount>>
formatVars == <<fmtValue, fmtFunc, fmtResult>>
indexVars == <<indexPc, indexRo, viewColumnMeta, projection, located, deletedIds,
               recordIndex>>
nonFieldVars == <<aggVars, searchVars, formatVars, indexVars>>
nonAggVars == <<fieldVars, searchVars, formatVars, indexVars>>
vars == <<fieldVars, aggVars, searchVars, formatVars, indexVars>>

----------------------------------------------------------------------------
(* Bounds *)

\* longest list of field references in a formula expression
MaxRefs == 2
\* longest list of requested (fieldId, statisticFunc) pairs
MaxStats == 2
\* longest groupBy
MaxGroup == 2
\* most pieces of a string given to formatConvertValue
MaxPieces == 3
\* largest index asked of getRecordIndexBySearchOrder
MaxIndex == 5

----------------------------------------------------------------------------
(* Values *)

Undefined == "undefined"

Link == "link"
Formula == "formula"
Rollup == "rollup"
SingleLineText == "singleLineText"
Number == "number"

OneMany == "oneMany"
ManyOne == "manyOne"
ManyMany == "manyMany"
Relationships == {OneMany, ManyOne, ManyMany}

BadRequestException == "BadRequestException"
NotFoundError == "NotFoundError"
Error == "Error"
StoreError == "StoreError"

NoOptions == [none |-> TRUE]
NoError == <<>>

\* @teable-group/core RelationshipRevert
RelationshipRevert(relationship) ==
    CASE relationship = OneMany -> ManyOne
      [] relationship = ManyOne -> OneMany
      [] relationship = ManyMany -> ManyMany

RECURSIVE join(_)
\* Array.prototype.join() with the default separator
join(ids) ==
    IF ids = <<>> THEN ""
    ELSE IF Len(ids) = 1 THEN ids[1]
    ELSE ids[1] \o "," \o join(Tail(ids))

RECURSIVE uniq(_)
\* the ids of a list, each once, in the order of their first occurrence
uniq(ids) ==
    IF ids = <<>> THEN <<>>
    ELSE LET init == uniq(SubSeq(ids, 1, Len(ids) - 1))
             last == ids[Len(ids)]
         IN IF \E i \in 1..Len(init) : init[i] = last THEN init ELSE Append(init, last)

Range(s) == {s[i] : i \in 1..Len(s)}

----------------------------------------------------------------------------
(* The store *)

TableMeta == {[id |-> "t1", name |-> "T1"], [id |-> "t2", name |-> "T2"]}

LinkRow(id, table, foreign, relationship, fk, lookup, symmetric, deleted) ==
    [id |-> id, tableId |-> table, type |-> Link, isPrimary |-> FALSE,
     deleted |-> deleted, name |-> id,
     options |-> [relationship |-> relationship, foreignTableId |-> foreign,
                  lookupFieldId |-> lookup, dbForeignKeyName |-> fk,
                  symmetricFieldId |-> symmetric]]

PlainRow(id, table, type, isPrimary, deleted) ==
    [id |-> id, tableId |-> table, type |-> type, isPrimary |-> isPrimary,
     deleted |-> deleted, name |-> id, options |-> NoOptions]

\* A store with two tables, their primary fields, a number field in each
\* and a persisted pair of link fields; some of them soft-deleted.
InitialDb(n1Deleted, n2Deleted, linkDeleted) ==
    [field |-> {PlainRow("p1", "t1", SingleLineText, TRUE, FALSE),
                PlainRow("p2", "t2", SingleLineText, TRUE, FALSE),
                PlainRow("n1", "t1", Number, FALSE, n1Deleted),
                PlainRow("n2", "t2", Number, FALSE, n2Deleted),
                LinkRow("l1", "t1", "t2", ManyOne, "__fk_l1", "p2", "l2", linkDeleted),
                LinkRow("l2", "t2", "t1", OneMany, "__fk_l1", "p1", "l1", linkDeleted)},
     reference |-> <<[fromFieldId |-> "p2", toFieldId |-> "l1"],
                     [fromFieldId |-> "p1", toFieldId |-> "l2"]>>,
     column |-> {<<"t1", "__fk_l1">>}]

EmptyTx == [field |-> {}, reference |-> <<>>, column |-> {}]

\* the transaction client handed to supplementByCreate and createReference,
\* and the client of the service itself (this.prismaService)
TxClient == "tx"
BaseClient == "base"

\* the field rows a client reads
FieldRows(w, prisma) ==
    IF prisma = TxClient THEN w.db.field \cup w.tx.field ELSE w.db.field

\* prisma.<model>.findFirst: the row matching, if any
findFirst(rows) == IF rows = {} THEN <<>> ELSE <<CHOOSE r \in rows : TRUE>>

----------------------------------------------------------------------------
(* FieldSupplementService: prepareField *)

Ok(field) == [field |-> <<field>>, error |-> NoError]
Throw(kind, message, args) ==
    [field |-> <<>>, error |-> <<[kind |-> kind, message |-> message, args |-> args]>>]

getForeignKeyFieldName(fieldId) == "__fk_" \o fieldId

getDefaultLinkName(foreignTableId) ==
    LET tableRaw == findFirst({t \in TableMeta : t.id = foreignTableId})
    IN IF tableRaw = <<>>
       THEN Throw(BadRequestException,
                  "foreignTableId " \o foreignTableId \o " is invalid", <<foreignTableId>>)
       ELSE Ok(tableRaw[1].name)

\* the key is named after the other side
dbForeignKeyName_Swapped(relationship, fieldId, symmetricFieldId) ==
    IF relationship = ManyOne THEN getForeignKeyFieldName(symmetricFieldId)
    ELSE IF relationship = OneMany THEN getForeignKeyFieldName(fieldId)
    ELSE ""

\* let dbForeignKeyName = ''; set for ManyOne and for OneMany
dbForeignKeyNameOf(relationship, fieldId, symmetricFieldId) ==
    IF relationship = ManyOne THEN getForeignKeyFieldName(fieldId)
    ELSE IF relationship = OneMany THEN getForeignKeyFieldName(symmetricFieldId)
    ELSE ""

\* gen1, gen2: the ids the two calls of generateFieldId() return
prepareLinkField(w, field, gen1, gen2) ==
    LET relationship == field.options.relationship
        foreignTableId == field.options.foreignTableId
        primary == findFirst({r \in FieldRows(w, BaseClient) :
                                r.tableId = foreignTableId /\ r.isPrimary})
        fieldId == IF field.id = Undefined THEN gen1 ELSE field.id
        symmetricFieldId == gen2
        dbForeignKeyName == dbForeignKeyNameOf(relationship, fieldId, symmetricFieldId)
        defaultName == getDefaultLinkName(foreignTableId)
    IN IF primary = <<>>
       THEN Throw(NotFoundError, "No Field found", <<>>)
       ELSE IF field.name = Undefined /\ defaultName.error # NoError
       THEN defaultName
       ELSE Ok([field EXCEPT
                  !.id = fieldId,
                  !.name = IF field.name = Undefined THEN defaultName.field[1] ELSE field.name,
                  !.options = [relationship |-> relationship,
                               foreignTableId |-> foreignTableId,
                               lookupFieldId |-> primary[1].id,
                               dbForeignKeyName |-> dbForeignKeyName,
                               symmetricFieldId |-> symmetricFieldId]])

\* field.findFirst({ id: linkFieldId, deletedTime: null, type: Link })
findLinkField(w, linkFieldId) ==
    findFirst({r \in FieldRows(w, BaseClient) :
                 r.id = linkFieldId /\ ~r.deleted /\ r.type = Link})

\* the soft-deleted rows are searched too
findLookupField_AnyRow(w, lookupFieldId) ==
    findFirst({r \in FieldRows(w, BaseClient) : r.id = lookupFieldId})

\* field.findFirst({ id: lookupFieldId, deletedTime: null })
findLookupField(w, lookupFieldId) ==
    findFirst({r \in FieldRows(w, BaseClient) : r.id = lookupFieldId /\ ~r.deleted})

\* returns [error, lookupOptions, lookupFieldRaw, linkFieldRaw]
prepareLookupOptions(w, field, batch) ==
    LET lookupOptions == field.lookupOptions
        linkFieldId == lookupOptions[1].linkFieldId
        lookupFieldId == lookupOptions[1].lookupFieldId
        foreignTableId == lookupOptions[1].foreignTableId
        linkFieldRaw == findLinkField(w, linkFieldId)
        \* the options of the persisted link field, else the batch definition of that id
        linkFieldOptions ==
            IF linkFieldRaw # <<>> THEN <<linkFieldRaw[1].options>>
            ELSE LET found == {i \in 1..Len(batch) : batch[i].id = linkFieldId}
                 IN IF found = {} THEN <<>>
                    ELSE <<batch[CHOOSE i \in found : \A j \in found : i <= j]>>
        lookupFieldRaw == findLookupField(w, lookupFieldId)
        none == [lookupOptions |-> <<>>, lookupFieldRaw |-> <<>>, linkFieldRaw |-> <<>>]
    IN IF lookupOptions = <<>>
       THEN none @@ [error |-> Throw(BadRequestException,
                                     "lookupOptions is required", <<>>).error]
       ELSE IF linkFieldOptions = <<>> \/ linkFieldRaw = <<>>
       THEN none @@ [error |-> Throw(BadRequestException,
                                     "linkFieldId " \o linkFieldId \o " is invalid",
                                     <<linkFieldId>>).error]
       ELSE IF foreignTableId # linkFieldOptions[1].foreignTableId
       THEN none @@ [error |-> Throw(BadRequestException,
                                     "foreignTableId " \o foreignTableId \o " is invalid",
                                     <<foreignTableId>>).error]
       ELSE IF lookupFieldRaw = <<>>
       THEN none @@ [error |-> Throw(BadRequestException,
                                     "Lookup field " \o lookupFieldId \o " is not exist",
                                     <<lookupFieldId>>).error]
       ELSE [error |-> NoError,
             lookupOptions |->
                 <<[linkFieldId |-> linkFieldId,
                    lookupFieldId |-> lookupFieldId,
                    foreignTableId |-> foreignTableId,
                    relationship |-> linkFieldOptions[1].relationship,
                    dbForeignKeyName |-> linkFieldOptions[1].dbForeignKeyName]>>,
             lookupFieldRaw |-> lookupFieldRaw,
             linkFieldRaw |-> linkFieldRaw]

prepareLookupField(w, field, batch) ==
    LET r == prepareLookupOptions(w, field, batch)
        lookupFieldRaw == r.lookupFieldRaw[1]
        linkFieldRaw == r.linkFieldRaw[1]
    IN IF r.error # NoError
       THEN [field |-> <<>>, error |-> r.error]
       ELSE IF lookupFieldRaw.type # field.type
       THEN Throw(BadRequestException,
                  "Current field type " \o field.type
                      \o " is not equal to lookup field (" \o lookupFieldRaw.type \o ")",
                  <<field.type, lookupFieldRaw.type>>)
       ELSE Ok([field EXCEPT
                  !.name = IF field.name = Undefined
                           THEN lookupFieldRaw.name \o " (from " \o linkFieldRaw.name \o ")"
                           ELSE field.name,
                  !.options = lookupFieldRaw.options,
                  !.lookupOptions = r.lookupOptions])

\* FormulaFieldDto.getReferenceFieldIds: the ids the expression references,
\* each once; [ok |-> FALSE] when the expression does not parse
getReferenceFieldIds(expression) ==
    IF expression.parses THEN [ok |-> TRUE, fieldIds |-> uniq(expression.refs)]
    ELSE [ok |-> FALSE, fieldIds |-> <<>>]

\* createFieldInstanceByRo of the batch: only the ids matter to keyBy
batchFieldIds(batch) == {batch[i].id : i \in 1..Len(batch)}

prepareFormulaField(w, field, batch) ==
    LET parsed == getReferenceFieldIds(field.options.expression)
        fieldIds == parsed.fieldIds
        fieldRaws == {r \in FieldRows(w, BaseClient) : r.id \in Range(fieldIds)}
        fieldMap == {r.id : r \in fieldRaws} \cup batchFieldIds(batch)
    IN IF ~parsed.ok
       THEN Throw(BadRequestException, "expression parse error", <<>>)
       ELSE IF \E i \in 1..Len(fieldIds) : fieldIds[i] \notin fieldMap
       THEN Throw(BadRequestException,
                  "formula field reference " \o join(fieldIds) \o " not found",
                  <<join(fieldIds)>>)
       ELSE Ok(field)

\* RollupFieldDto.getParsedValueType throws on an expression it does not know
prepareRollupField(w, field, batch) ==
    LET r == prepareLookupOptions(w, field, batch)
        lookupFieldRaw == r.lookupFieldRaw[1]
        linkFieldRaw == r.linkFieldRaw[1]
    IN IF r.error # NoError
       THEN [field |-> <<>>, error |-> r.error]
       ELSE IF field.options = NoOptions
       THEN Throw(BadRequestException, "rollup field options is required", <<>>)
       ELSE IF ~field.options.expression.parses
       THEN Throw(BadRequestException, "rollup expression error", <<>>)
       ELSE Ok([field EXCEPT
                  !.name = IF field.name = Undefined
                           THEN lookupFieldRaw.name \o " Rollup (from "
                                    \o linkFieldRaw.name \o ")"
                           ELSE field.name,
                  !.lookupOptions = r.lookupOptions])

prepareField(w, field, batch, gen1, gen2) ==
    IF field.isLookup THEN prepareLookupField(w, field, batch)
    ELSE IF field.type = Rollup THEN prepareRollupField(w, field, batch)
    ELSE IF field.type = Link THEN prepareLinkField(w, field, gen1, gen2)
    ELSE IF field.type = Formula THEN prepareFormulaField(w, field, batch)
    ELSE Ok(field)

----------------------------------------------------------------------------
(* FieldSupplementService: supplementByCreate *)

\* a store with an error: what a call on the store leaves behind
World(d, t) == [db |-> d, tx |-> t, error |-> NoError]
Raise(w, kind, message) ==
    [w EXCEPT !.error = <<[kind |-> kind, message |-> message, args |-> <<>>]>>]

Columns(w, prisma) ==
    IF prisma = TxClient THEN w.db.column \cup w.tx.column ELSE w.db.column

\* the symmetric field points at itself
symmetricOptions_SelfRef(field, table, lookupFieldId) ==
    [relationship |-> RelationshipRevert(field.options.relationship),
     foreignTableId |-> table,
     lookupFieldId |-> lookupFieldId,
     dbForeignKeyName |-> field.options.dbForeignKeyName,
     symmetricFieldId |-> field.options.symmetricFieldId]

\* the options of the symmetric field
symmetricOptions(field, table, lookupFieldId) ==
    [relationship |-> RelationshipRevert(field.options.relationship),
     foreignTableId |-> table,
     lookupFieldId |-> lookupFieldId,
     dbForeignKeyName |-> field.options.dbForeignKeyName,
     symmetricFieldId |-> field.id]

generateSymmetricField(w, prisma, table, field) ==
    LET tableMeta == findFirst({t \in TableMeta : t.id = table})
        primary == findFirst({r \in FieldRows(w, prisma) : r.tableId = table /\ r.isPrimary})
    IN IF tableMeta = <<>> THEN Throw(NotFoundError, "No TableMeta found", <<>>)
       ELSE IF primary = <<>> THEN Throw(NotFoundError, "No Field found", <<>>)
       ELSE Ok([id |-> field.options.symmetricFieldId,
                name |-> tableMeta[1].name,
                type |-> Link,
                isLookup |-> FALSE,
                options |-> symmetricOptions(field, table, primary[1].id),
                lookupOptions |-> <<>>])

\* the guard lets the wrong side through
createForeignKeyField_OneMany(w, prisma, table, field, storeFails) ==
    LET column == <<table, field.options.dbForeignKeyName>>
    IN IF field.options.relationship # OneMany
       THEN Raise(w, Error, "only many-one relationship should create foreign key field")
       ELSE IF \A t \in TableMeta : t.id # table
       THEN Raise(w, NotFoundError, "No TableMeta found")
       ELSE IF storeFails \/ column \in Columns(w, prisma)
       THEN Raise(w, StoreError, "alter table failed")
       ELSE IF prisma = TxClient
       THEN [w EXCEPT !.tx.column = @ \cup {column}]
       ELSE [w EXCEPT !.db.column = @ \cup {column}]

\* storeFails: the store rejects the ALTER TABLE
createForeignKeyField(w, prisma, table, field, storeFails) ==
    LET column == <<table, field.options.dbForeignKeyName>>
    IN IF field.options.relationship # ManyOne
       THEN Raise(w, Error, "only many-one relationship should create foreign key field")
       ELSE IF \A t \in TableMeta : t.id # table
       THEN Raise(w, NotFoundError, "No TableMeta found")
       ELSE IF storeFails \/ column \in Columns(w, prisma)
       THEN Raise(w, StoreError, "alter table failed")
       ELSE IF prisma = TxClient
       THEN [w EXCEPT !.tx.column = @ \cup {column}]
       ELSE [w EXCEPT !.db.column = @ \cup {column}]

\* returns the store, the error and the symmetric field
supplementByCreate(w, prisma, table, field, storeFails) ==
    LET foreignTableId == field.options.foreignTableId
        generated == generateSymmetricField(w, prisma, table, field)
        symmetric == generated.field[1]
        w1 == IF symmetric.options.relationship = ManyOne
              THEN createForeignKeyField(w, prisma, foreignTableId, symmetric, storeFails)
              ELSE w
        w2 == IF w1.error # NoError THEN w1
              ELSE IF field.options.relationship = ManyOne
              THEN createForeignKeyField(w1, prisma, table, field, storeFails)
              ELSE w1
    IN IF field.type # Link
       THEN Raise(w, Error, "only link field need to create supplement field")
                @@ [symmetricField |-> <<>>]
       ELSE IF generated.error # NoError
       THEN [w EXCEPT !.error = generated.error] @@ [symmetricField |-> <<>>]
       ELSE IF w2.error # NoError
       THEN w2 @@ [symmetricField |-> <<>>]
       ELSE w2 @@ [symmetricField |-> <<symmetric>>]

----------------------------------------------------------------------------
(* FieldSupplementService: createReference *)

\* prisma.reference.create
referenceCreate(w, prisma, data) ==
    IF prisma = TxClient
    THEN [w EXCEPT !.tx.reference = Append(@, data)]
    ELSE [w EXCEPT !.db.reference = Append(@, data)]

\* okCount: how many calls of prisma.reference.create succeed before the
\* store rejects one
createLookupReference(w, prisma, field, okCount) ==
    IF field.lookupOptions = <<>>
    THEN Raise(w, Error, "lookupOptions is required")
    ELSE IF okCount < 1
    THEN Raise(w, StoreError, "reference create failed")
    ELSE referenceCreate(w, prisma, [fromFieldId |-> field.lookupOptions[1].lookupFieldId,
                                     toFieldId |-> field.id])

createLinkReference(w, prisma, field, okCount) ==
    IF okCount < 1
    THEN Raise(w, StoreError, "reference create failed")
    ELSE referenceCreate(w, prisma, [fromFieldId |-> field.options.lookupFieldId,
                                     toFieldId |-> field.id])

RECURSIVE createEach(_, _, _, _, _)
\* the loop of createFormulaReference over the remaining ids
createEach(w, prisma, fieldIds, toFieldId, okCount) ==
    IF fieldIds = <<>> THEN w
    ELSE IF okCount < 1 THEN Raise(w, StoreError, "reference create failed")
    ELSE createEach(referenceCreate(w, prisma, [fromFieldId |-> Head(fieldIds),
                                                toFieldId |-> toFieldId]),
                    prisma, Tail(fieldIds), toFieldId, okCount - 1)

\* the rows are written through the service's own client
createFormulaReference_OwnClient(w, prisma, field, okCount) ==
    createEach(w, BaseClient, getReferenceFieldIds(field.options.expression).fieldIds,
               field.id, okCount)

createFormulaReference(w, prisma, field, okCount) ==
    createEach(w, prisma, getReferenceFieldIds(field.options.expression).fieldIds,
               field.id, okCount)

\* the Rollup case is missing from the switch
createReference_NoRollup(w, prisma, field, okCount) ==
    IF field.isLookup THEN createLookupReference(w, prisma, field, okCount)
    ELSE IF field.type = Formula THEN createFormulaReference(w, prisma, field, okCount)
    ELSE IF field.type = Link THEN createLinkReference(w, prisma, field, okCount)
    ELSE w

createReference(w, prisma, field, okCount) ==
    IF field.isLookup THEN createLookupReference(w, prisma, field, okCount)
    ELSE IF field.type = Formula THEN createFormulaReference(w, prisma, field, okCount)
    ELSE IF field.type = Rollup THEN createLookupReference(w, prisma, field, okCount)
    ELSE IF field.type = Link THEN createLinkReference(w, prisma, field, okCount)
    ELSE w

----------------------------------------------------------------------------
(* The requests *)

SeqUpTo(S, n) == UNION {[1..k -> S] : k \in 0..n}

Tables == {"t1", "t2"}
\* ids generateFieldId() may return
GenIds == {"g1", "g2"}
\* ids an expression may reference: persisted (n1 may be soft-deleted),
\* defined in the batch only, unknown
RefIds == {"p1", "n1", "b1", "zz"}

Expressions ==
    {[parses |-> TRUE, refs |-> s] : s \in SeqUpTo(RefIds, MaxRefs)}
        \cup {[parses |-> FALSE, refs |-> <<>>]}

LinkRos ==
    {[id |-> i, name |-> n, type |-> Link, isLookup |-> FALSE,
      options |-> [relationship |-> r, foreignTableId |-> t], lookupOptions |-> <<>>] :
        i \in {Undefined, "a1"}, n \in {Undefined, "A"},
        r \in Relationships, t \in Tables \cup {"tX"}}

FormulaRos ==
    {[id |-> "a1", name |-> "A", type |-> Formula, isLookup |-> FALSE,
      options |-> [expression |-> e], lookupOptions |-> <<>>] : e \in Expressions}

LookupOptionsRos ==
    {<<>>} \cup
    {<<[linkFieldId |-> l, lookupFieldId |-> f, foreignTableId |-> t]>> :
        l \in {"l1", "n1", "zz"}, f \in {"n2", "p2", "l2", "zz"}, t \in Tables}

LookupRos ==
    {[id |-> "a1", name |-> n, type |-> ty, isLookup |-> TRUE,
      options |-> NoOptions, lookupOptions |-> lo] :
        n \in {Undefined, "A"}, ty \in {Number, SingleLineText, Link},
        lo \in LookupOptionsRos}

RollupRos ==
    {[id |-> "a1", name |-> "A", type |-> Rollup, isLookup |-> FALSE,
      options |-> o, lookupOptions |-> lo] :
        o \in {NoOptions,
               [expression |-> [parses |-> TRUE, refs |-> <<>>]],
               [expression |-> [parses |-> FALSE, refs |-> <<>>]]},
        lo \in LookupOptionsRos}

PlainRos ==
    {[id |-> "a1", name |-> "A", type |-> ty, isLookup |-> FALSE,
      options |-> NoOptions, lookupOptions |-> <<>>] : ty \in {Number, SingleLineText}}

FieldRos == LinkRos \cup FormulaRos \cup LookupRos \cup RollupRos \cup PlainRos

Batches ==
    {<<>>,
     <<[id |-> "b1", name |-> "B", type |-> Number, isLookup |-> FALSE,
        options |-> NoOptions, lookupOptions |-> <<>>]>>}

----------------------------------------------------------------------------
(* Creating a field: prepareField, then, in one transaction of the caller,  *)
(* supplementByCreate (link fields), the field rows, createReference.       *)

NoField == [field |-> <<>>, error |-> NoError]

InitField ==
    /\ db \in {InitialDb(a, b, c) : a \in BOOLEAN, b \in BOOLEAN, c \in BOOLEAN}
    /\ tx = EmptyTx
    /\ snapshot = db
    /\ pc = "idle"
    /\ tableId = "t1"
    /\ fieldRo = <<>>
    /\ batchFieldRos = <<>>
    /\ prepared = NoField
    /\ symmetricField = <<>>
    /\ thrown = NoError
    /\ aggPc = "idle"
    /\ aggRows = <<>>
    /\ statisticFields = <<>>
    /\ groupBy = <<>>
    /\ aggregations = <<>>
    /\ aggregationByFieldId = <<>>
    /\ aggLevel = 0
    /\ queries = <<>>
    /\ aggResult = <<>>
    /\ filter = <<>>
    /\ search = <<>>
    /\ hiddenFields = {}
    /\ countPc = "idle"
    /\ queryRo = <<>>
    /\ rowCount = <<>>
    /\ fmtValue = [type |-> "null"]
    /\ fmtFunc = <<>>
    /\ fmtResult = <<>>
    /\ indexPc = "idle"
    /\ indexRo = <<>>
    /\ viewColumnMeta = <<>>
    /\ projection = <<>>
    /\ located = <<>>
    /\ deletedIds = {}
    /\ recordIndex = <<>>

PrepareField ==
    /\ pc = "idle"
    /\ \E field \in FieldRos, batch \in Batches, table \in Tables,
          gen1 \in GenIds, gen2 \in GenIds :
          LET r == prepareField(World(db, tx), field, batch, gen1, gen2)
          IN /\ fieldRo' = <<field>>
             /\ batchFieldRos' = batch
             /\ tableId' = table
             /\ prepared' = r
             /\ pc' = IF r.error = NoError THEN "prepared" ELSE "rejected"
    /\ UNCHANGED <<db, tx, snapshot, symmetricField, thrown, nonFieldVars>>

\* the caller opens the transaction whose client it hands to the service
BeginTransaction ==
    /\ pc = "prepared"
    /\ pc' = "open"
    /\ snapshot' = db
    /\ tx' = EmptyTx
    /\ UNCHANGED <<db, tableId, fieldRo, batchFieldRos, prepared, symmetricField,
                   thrown, nonFieldVars>>

NeedsSupplement(field) == field.type = Link /\ ~field.isLookup

SupplementByCreate ==
    /\ pc = "open"
    /\ NeedsSupplement(prepared.field[1])
    /\ \E storeFails \in BOOLEAN :
          LET r == supplementByCreate(World(db, tx), TxClient, tableId,
                                      prepared.field[1], storeFails)
          IN /\ db' = r.db
             /\ tx' = r.tx
             /\ symmetricField' = r.symmetricField
             /\ thrown' = r.error
             /\ pc' = IF r.error = NoError THEN "supplemented" ELSE "aborted"
    /\ UNCHANGED <<snapshot, tableId, fieldRo, batchFieldRos, prepared, nonFieldVars>>

FieldRow(table, field) ==
    [id |-> field.id, tableId |-> table, type |-> field.type, isPrimary |-> FALSE,
     deleted |-> FALSE, name |-> field.name, options |-> field.options]

\* the rows one creation writes: the field and, for a link, its symmetric field
NewRows ==
    {FieldRow(tableId, prepared.field[1])}
        \cup {FieldRow(prepared.field[1].options.foreignTableId, symmetricField[i]) :
                i \in 1..Len(symmetricField)}

\* the caller writes the field rows through the transaction
SaveFields ==
    /\ \/ pc = "supplemented"
       \/ pc = "open" /\ ~NeedsSupplement(prepared.field[1])
    /\ tx' = [tx EXCEPT !.field = @ \cup NewRows]
    /\ pc' = "saved"
    /\ UNCHANGED <<db, snapshot, tableId, fieldRo, batchFieldRos, prepared,
                   symmetricField, thrown, nonFieldVars>>

CreateReference ==
    /\ pc = "saved"
    /\ \E okCount \in 0..MaxRefs :
          LET r == createReference(World(db, tx), TxClient, prepared.field[1], okCount)
          IN /\ db' = r.db
             /\ tx' = r.tx
             /\ thrown' = r.error
             /\ pc' = IF r.error = NoError THEN "referenced" ELSE "aborted"
    /\ UNCHANGED <<snapshot, tableId, fieldRo, batchFieldRos, prepared,
                   symmetricField, nonFieldVars>>

Commit ==
    /\ pc = "referenced"
    /\ db' = [field |-> db.field \cup tx.field,
              reference |-> db.reference \o tx.reference,
              column |-> db.column \cup tx.column]
    /\ tx' = EmptyTx
    /\ pc' = "committed"
    /\ UNCHANGED <<snapshot, tableId, fieldRo, batchFieldRos, prepared,
                   symmetricField, thrown, nonFieldVars>>

Rollback ==
    /\ pc = "aborted"
    /\ tx' = EmptyTx
    /\ pc' = "rolledBack"
    /\ UNCHANGED <<db, snapshot, tableId, fieldRo, batchFieldRos, prepared,
                   symmetricField, thrown, nonFieldVars>>

NextField ==
    \/ PrepareField
    \/ BeginTransaction
    \/ SupplementByCreate
    \/ SaveFields
    \/ CreateReference
    \/ Commit
    \/ Rollback

SpecField == InitField /\ [][NextField]_vars

----------------------------------------------------------------------------
(* Properties of field creation *)

RequestedField == fieldRo[1]
PreparedField == prepared.field[1]
SymmetricField == symmetricField[1]
IsLinkRequest == fieldRo # <<>> /\ RequestedField.type = Link /\ ~RequestedField.isLookup
IsPrepared == fieldRo # <<>> /\ prepared.field # <<>>
JustPrepared == pc \in {"prepared", "rejected"}
OnlyManyOne == "only many-one relationship should create foreign key field"

\* the columns a link field's creation is to add, by its relationship
ExpectedColumns ==
    LET o == PreparedField.options
    IN IF o.relationship = OneMany THEN {<<o.foreignTableId, o.dbForeignKeyName>>}
       ELSE IF o.relationship = ManyOne THEN {<<tableId, o.dbForeignKeyName>>}
       ELSE {}

\* the edges a field's creation is to insert, by its kind
ExpectedEdges ==
    LET f == PreparedField
    IN IF f.isLookup \/ f.type = Rollup
       THEN {[fromFieldId |-> f.lookupOptions[1].lookupFieldId, toFieldId |-> f.id]}
       ELSE IF f.type = Formula
       THEN {[fromFieldId |-> id, toFieldId |-> f.id] : id \in Range(f.options.expression.refs)}
       ELSE IF f.type = Link
       THEN {[fromFieldId |-> f.options.lookupFieldId, toFieldId |-> f.id]}
       ELSE {}

\* C1: a prepared link field and the symmetric field supplementByCreate
\* returns for it reference each other, carry the same foreign-key name,
\* have mirrored relationships, and the symmetric field's foreign table is
\* the table that owns the prepared field.
C1_SymmetricPair ==
    (IsLinkRequest /\ symmetricField # <<>>) =>
        LET a == PreparedField.options
            b == SymmetricField.options
        IN /\ a.symmetricFieldId = SymmetricField.id
           /\ b.symmetricFieldId = PreparedField.id
           /\ a.dbForeignKeyName = b.dbForeignKeyName
           /\ a.relationship = RequestedField.options.relationship
           /\ a.relationship = OneMany => b.relationship = ManyOne
           /\ a.relationship = ManyOne => b.relationship = OneMany
           /\ a.relationship = ManyMany => b.relationship = ManyMany
           /\ b.foreignTableId = tableId

C1_Witness ==
    /\ IsLinkRequest
    /\ symmetricField # <<>>
    /\ RequestedField.id = Undefined
    /\ PreparedField.options.relationship = OneMany
    /\ PreparedField.id # SymmetricField.id

\* C2: the foreign-key name of a prepared link is "__fk_" and the id of the
\* ManyOne side: the field's own id when it is ManyOne, the symmetric
\* field's id when it is OneMany; it is never empty for these two.
C2_ForeignKeyName ==
    (IsLinkRequest /\ IsPrepared) =>
        LET o == PreparedField.options
        IN /\ o.relationship = ManyOne => o.dbForeignKeyName = "__fk_" \o PreparedField.id
           /\ o.relationship = OneMany => o.dbForeignKeyName = "__fk_" \o o.symmetricFieldId
           /\ o.relationship \in {ManyOne, OneMany} => o.dbForeignKeyName # ""
           /\ symmetricField # <<>> =>
                 \A side \in {PreparedField, SymmetricField} :
                     side.options.relationship = ManyOne =>
                         o.dbForeignKeyName = "__fk_" \o side.id

C2_Witness ==
    /\ IsLinkRequest
    /\ symmetricField # <<>>
    /\ PreparedField.options.relationship = OneMany
    /\ PreparedField.id = "a1"
    /\ PreparedField.options.dbForeignKeyName = "__fk_g2"

\* C3: supplementByCreate adds the foreign-key column, named by the pair's
\* foreign-key name, to the foreign table for a OneMany field, to the own
\* table for a ManyOne field, and adds none for a ManyMany field; it never
\* fails with 'only many-one relationship should create foreign key field'.
C3_ForeignKeyColumns ==
    /\ (IsLinkRequest /\ pc \in {"supplemented", "saved", "referenced"}) =>
           tx.column = ExpectedColumns
    /\ (IsLinkRequest /\ pc = "committed") =>
           db.column \ snapshot.column = ExpectedColumns
    /\ thrown # NoError => thrown[1].message # OnlyManyOne

C3_Witness ==
    /\ IsLinkRequest
    /\ pc = "supplemented"
    /\ PreparedField.options.relationship = OneMany
    /\ tableId = "t1"
    /\ tx.column = {<<"t2", PreparedField.options.dbForeignKeyName>>}

\* C4: createReference inserts one edge from lookupOptions.lookupFieldId for
\* a lookup or rollup field, one edge per distinct referenced field for a
\* formula field, one edge from options.lookupFieldId for a link field, and
\* no edge for any other field; every edge ends at the field.
C4_ReferenceEdges ==
    pc = "referenced" =>
        /\ Range(tx.reference) = ExpectedEdges
        /\ Len(tx.reference) = Cardinality(ExpectedEdges)

C4_Witness ==
    /\ pc = "referenced"
    /\ PreparedField.type = Formula
    /\ Len(tx.reference) = 2

\* C5: the committed store holds either none of the effects of a creation
\* (field rows, foreign-key columns, reference edges) or all of them, also
\* when a step failed after earlier steps had written.
C5_AllOrNothing ==
    LET newRows == db.field \ snapshot.field
        newColumns == db.column \ snapshot.column
        kept == SubSeq(db.reference, 1, Len(snapshot.reference))
        newEdges == SubSeq(db.reference, Len(snapshot.reference) + 1, Len(db.reference))
    IN /\ kept = snapshot.reference
       /\ snapshot.field \subseteq db.field
       /\ snapshot.column \subseteq db.column
       /\ \/ /\ pc # "committed"
             /\ newRows = {}
             /\ newColumns = {}
             /\ newEdges = <<>>
          \/ /\ pc = "committed"
             /\ newRows = NewRows
             /\ newColumns = IF IsLinkRequest THEN ExpectedColumns ELSE {}
             /\ Range(newEdges) = ExpectedEdges
             /\ Len(newEdges) = Cardinality(ExpectedEdges)

C5_Witness ==
    /\ pc = "aborted"
    /\ PreparedField.type = Formula
    /\ Len(tx.reference) = 1
    /\ thrown[1].kind = StoreError

\* C6: every edge createReference inserts for a prepared field starts at a
\* field that existed and was not soft-deleted when the field was prepared
\* (a persisted field, or a field defined in the same batch).
C6_EdgesFromLiveFields ==
    pc = "referenced" =>
        \A i \in 1..Len(tx.reference) :
            \/ \E r \in snapshot.field :
                   r.id = tx.reference[i].fromFieldId /\ ~r.deleted
            \/ tx.reference[i].fromFieldId \in batchFieldIds(batchFieldRos)

\* C7: prepareField accepts a lookup field exactly when lookupOptions is
\* given, the link field exists, is not soft-deleted and is a Link, its
\* foreign table is the stated one, the source field exists and is not
\* soft-deleted, and the declared type is the source's type; otherwise it
\* fails with a BadRequestException and returns no field; the type mismatch
\* names both types; the resolved lookupOptions carry the link field's
\* relationship and foreign-key name.
C7_LookupAccepted ==
    (fieldRo # <<>> /\ RequestedField.isLookup /\ JustPrepared) =>
        LET ro == RequestedField
            lo == ro.lookupOptions
            hasOptions == lo # <<>>
            links == {r \in db.field :
                        r.id = lo[1].linkFieldId /\ ~r.deleted /\ r.type = Link}
            sources == {r \in db.field : r.id = lo[1].lookupFieldId /\ ~r.deleted}
            linkOk == hasOptions /\ links # {}
            tableOk == linkOk /\ \A l \in links :
                                     l.options.foreignTableId = lo[1].foreignTableId
            sourceOk == hasOptions /\ sources # {}
            typeOk == sourceOk /\ \A r \in sources : r.type = ro.type
            accepted == prepared.error = NoError
        IN /\ accepted <=> (hasOptions /\ linkOk /\ tableOk /\ sourceOk /\ typeOk)
           /\ ~accepted => /\ prepared.field = <<>>
                           /\ prepared.error[1].kind = BadRequestException
           /\ accepted => prepared.field # <<>>
           /\ (linkOk /\ tableOk /\ sourceOk /\ ~typeOk) =>
                  \A r \in sources : prepared.error[1].args = <<ro.type, r.type>>
           /\ accepted =>
                  \A l \in links :
                      LET resolved == PreparedField.lookupOptions[1]
                      IN /\ resolved.relationship = l.options.relationship
                         /\ resolved.dbForeignKeyName = l.options.dbForeignKeyName
                         /\ resolved.linkFieldId = lo[1].linkFieldId
                         /\ resolved.lookupFieldId = lo[1].lookupFieldId
                         /\ resolved.foreignTableId = lo[1].foreignTableId

C7_Witness ==
    /\ fieldRo # <<>>
    /\ RequestedField.isLookup
    /\ pc = "rejected"
    /\ prepared.error[1].args = <<Number, SingleLineText>>

\* C8: prepareField accepts a formula field exactly when every id its
\* expression references is a persisted field or a field of the batch, and
\* otherwise fails with a BadRequestException naming the first unresolved id.
C8_FormulaNamesFirstUnresolved ==
    (fieldRo # <<>> /\ ~RequestedField.isLookup /\ RequestedField.type = Formula
        /\ JustPrepared /\ RequestedField.options.expression.parses) =>
        LET refs == RequestedField.options.expression.refs
            known == {r.id : r \in db.field} \cup batchFieldIds(batchFieldRos)
            unresolved == {i \in 1..Len(refs) : refs[i] \notin known}
            first == CHOOSE i \in unresolved : \A j \in unresolved : i <= j
        IN /\ prepared.error = NoError <=> unresolved = {}
           /\ unresolved # {} =>
                  /\ prepared.error[1].kind = BadRequestException
                  /\ prepared.error[1].args = <<refs[first]>>

\* C9: prepareField on a link field whose foreign table has no primary field
\* fails with a BadRequestException; when it succeeds the resolved
\* lookupFieldId is the foreign table's primary field.
C9_LinkWithoutPrimary ==
    (IsLinkRequest /\ JustPrepared) =>
        LET primaries == {r \in db.field :
                            r.tableId = RequestedField.options.foreignTableId
                                /\ r.isPrimary}
        IN /\ primaries = {} => /\ prepared.error # NoError
                                /\ prepared.error[1].kind = BadRequestException
           /\ prepared.error = NoError =>
                  PreparedField.options.lookupFieldId \in {r.id : r \in primaries}

----------------------------------------------------------------------------
(* AggregationService                                                       *)
(*                                                                          *)
(* A string of this part is the sequence of its pieces, the character '_'   *)
(* always a piece of its own: the key "f1_sum" is <<"f1", "_", "sum">>.     *)
(* A value of the store is [type |-> "null"] or [type |-> "number", num].   *)

Underscore == "_"

RECURSIVE split(_, _)
\* String.prototype.split(separator)
split(str, separator) ==
    LET at == {i \in 1..Len(str) : str[i] = separator}
    IN IF at = {} THEN <<str>>
       ELSE LET i == CHOOSE k \in at : \A j \in at : k <= j
            IN <<SubSeq(str, 1, i - 1)>>
                   \o split(SubSeq(str, i + 1, Len(str)), separator)

NullValue == [type |-> "null"]
NumberValue(n) == [type |-> "number", num |-> n]
StringValue(str) == [type |-> "string", str |-> str]
\* a Date object, with the pieces of its ISO string
DateValue(iso) == [type |-> "date", iso |-> iso]
\* the number NaN
NaN == [type |-> "NaN"]

Sum == <<"sum">>
Count == <<"count">>
PercentEmpty == <<"percentEmpty">>
PercentFilled == <<"percentFilled">>
PercentUnique == <<"percentUnique">>
PercentChecked == <<"percentChecked">>
PercentUnChecked == <<"percentUnChecked">>
DateRangeOfMonths == <<"dateRangeOfMonths">>

\* the fields of the aggregated table
fieldInstanceMap ==
    [id \in {<<"f1">>, <<"f2">>, <<"g1">>, <<"g2">>} |->
        [dbFieldName |-> CASE id = <<"f1">> -> "amount"
                           [] id = <<"f2">> -> "qty"
                           [] id = <<"g1">> -> "name"
                           [] id = <<"g2">> -> "kind"]]

convertValueToNumberOrString(currentValue) ==
    IF currentValue.type = "number" THEN currentValue
    ELSE IF currentValue.type = "date" THEN StringValue(currentValue.iso)
    ELSE IF currentValue.type = "string" THEN currentValue
    ELSE NullValue

Comma == ","

\* dayjs(string): year, month and day of a date string, <<>> for any other
dayjs(str) ==
    IF Len(str) # 1 THEN <<>>
    ELSE CASE str[1] = "2024-03-15" -> <<2024, 3, 15>>
           [] str[1] = "2024-01-10" -> <<2024, 1, 10>>
           [] str[1] = "2024-01-20" -> <<2024, 1, 20>>
           [] str[1] = "2023-03-15" -> <<2023, 3, 15>>
           [] OTHER -> <<>>

\* the whole months from the earlier date to the later one
monthsBetween(earlier, later) ==
    LET wholeMonthDiff == (later[1] - earlier[1]) * 12 + (later[2] - earlier[2])
    IN IF later[3] >= earlier[3] THEN wholeMonthDiff ELSE wholeMonthDiff - 1

\* dayjs(maxTime).diff(minTime, 'month'): the month difference, cut to a
\* whole number towards zero; NaN for a string that is no date
diff(maxTime, minTime) ==
    LET a == dayjs(maxTime)
        b == dayjs(minTime)
        before == \/ a[1] < b[1]
                  \/ a[1] = b[1] /\ a[2] < b[2]
                  \/ a[1] = b[1] /\ a[2] = b[2] /\ a[3] < b[3]
    IN IF a = <<>> \/ b = <<>> THEN NaN
       ELSE IF before THEN NumberValue(0 - monthsBetween(a, b))
       ELSE NumberValue(monthsBetween(b, a))

calculateDateRangeOfMonths_MinusMax(currentValue) ==
    LET parts == split(currentValue, Comma)
        maxTime == parts[1]
        minTime == IF Len(parts) >= 2 THEN parts[2] ELSE <<>>
    IN IF maxTime # <<>> /\ minTime # <<>> THEN diff(minTime, maxTime)
       ELSE NumberValue(0)

calculateDateRangeOfMonths(currentValue) ==
    LET parts == split(currentValue, Comma)
        maxTime == parts[1]
        minTime == IF Len(parts) >= 2 THEN parts[2] ELSE <<>>
    IN IF maxTime # <<>> /\ minTime # <<>> THEN diff(maxTime, minTime)
       ELSE NumberValue(0)

formatConvertValue_NoDefault(currentValue, aggFunc) ==
    convertValueToNumberOrString(currentValue)

formatConvertValue(currentValue, aggFunc) ==
    LET convertValue == convertValueToNumberOrString(currentValue)
        ranged == IF aggFunc = DateRangeOfMonths /\ currentValue.type = "string"
                  THEN calculateDateRangeOfMonths(currentValue.str)
                  ELSE convertValue
        defaultToZero == {PercentEmpty, PercentFilled, PercentUnique,
                          PercentChecked, PercentUnChecked}
    IN IF aggFunc = <<>> THEN convertValue
       ELSE IF aggFunc \in defaultToZero /\ ranged = NullValue THEN NumberValue(0)
       ELSE ranged

\* ../../utils convertValueToStringify, on a string
convertValueToStringify(value) == value

RECURSIVE string2Hash(_)
\* ../../utils string2Hash: a stable hash of the pieces of the string, kept
\* to 24 bits so that no step overflows the integers of TLC
string2Hash(str) ==
    IF str = <<>> THEN 0
    ELSE LET code == CHOOSE c \in 1..9 :
                 <<"_", "A", "B", "x", "y", "g1", "g2", "f1", "f2">>[c] = str[Len(str)]
         IN (string2Hash(SubSeq(str, 1, Len(str) - 1)) * 31 + code) % (2 ^ 24)

aggKey(fieldId, statisticFunc) == fieldId \o <<Underscore>> \o statisticFunc

RECURSIVE sumOf(_, _)
sumOf(rows, column) ==
    IF rows = <<>> THEN 0 ELSE rows[1][column] + sumOf(Tail(rows), column)

\* dbProvider.aggregationQuery: the statistic of a field over the rows; but
\* for the count, the statistic of no rows is null, and so is the percentage
\* of checked cells of a field that is no checkbox
statisticValue(rows, fieldId, statisticFunc) ==
    LET column == fieldInstanceMap[fieldId].dbFieldName
        distinct == {rows[r][column] : r \in 1..Len(rows)}
    IN IF statisticFunc = Count THEN NumberValue(Len(rows))
       ELSE IF rows = <<>> THEN NullValue
       ELSE IF statisticFunc = Sum THEN NumberValue(sumOf(rows, column))
       ELSE IF statisticFunc \in {PercentFilled, PercentUnChecked} THEN NumberValue(100)
       ELSE IF statisticFunc = PercentEmpty THEN NumberValue(0)
       ELSE IF statisticFunc = PercentUnique
       THEN NumberValue((100 * Cardinality(distinct)) \div Len(rows))
       ELSE NullValue

\* the columns <fieldId>_<statisticFunc> of one result row
statisticColumns(rows, fields) ==
    LET keys == uniq([i \in 1..Len(fields) |->
                        aggKey(fields[i].fieldId, fields[i].statisticFunc)])
    IN [k \in 1..Len(keys) |->
           LET i == CHOOSE j \in 1..Len(fields) :
                        aggKey(fields[j].fieldId, fields[j].statisticFunc) = keys[k]
           IN [key |-> keys[k],
               value |-> statisticValue(rows, fields[i].fieldId, fields[i].statisticFunc)]]

RECURSIVE selectRows(_, _, _)
\* the rows whose group columns hold the given values
selectRows(rows, columns, values) ==
    IF rows = <<>> THEN <<>>
    ELSE LET rest == selectRows(Tail(rows), columns, values)
         IN IF \A c \in 1..Len(columns) : rows[1][columns[c]] = values[c]
            THEN <<rows[1]>> \o rest ELSE rest

\* the columns whose cells hold text
textColumns == {"name", "kind"}

\* fetchStatisticsParams: the field map without the fields the view hides
fieldInstanceMapWithoutHiddenFields ==
    [id \in DOMAIN fieldInstanceMap \ hiddenFields |-> fieldInstanceMap[id]]

\* dbProvider.filterQuery: the rows whose cell of the filter's field holds
\* the filter's value
filterQuery(rows, fieldMap, flt) ==
    LET keep(row) == row[fieldMap[flt.fieldId].dbFieldName] = flt.value
    IN SelectSeq(rows, keep)

\* dbProvider.searchQuery: the rows with the search value in the text of a
\* cell of some field of the given field map
searchQuery(rows, fieldMap, srch) ==
    LET keep(row) == \E id \in DOMAIN fieldMap :
                         /\ fieldMap[id].dbFieldName \in textColumns
                         /\ \E i \in 1..Len(row[fieldMap[id].dbFieldName]) :
                                row[fieldMap[id].dbFieldName][i] = srch[1]
    IN SelectSeq(rows, keep)

\* handleAggregation: the relation main_table, the rows of the table under
\* the filter and, when its third element is set, the search
main_table(rows) ==
    LET filtered == IF filter # <<>>
                    THEN filterQuery(rows, fieldInstanceMap, filter[1]) ELSE rows
    IN IF search # <<>> /\ search[1][3]
       THEN searchQuery(filtered, fieldInstanceMap, search[1]) ELSE filtered

\* handleAggregation: <<>> when nothing is queried, else <<the result rows>>;
\* a result row is [group: the group columns' values, columns: key and value]
handleAggregation(rows, fields, group) ==
    IF fields = <<>> \/ fields[1] = <<>> THEN <<>>
    ELSE LET main == main_table(rows)
         IN IF group = <<>>
            THEN << <<[group |-> <<>>, columns |-> statisticColumns(main, fields[1])]>> >>
            ELSE LET columns == [c \in 1..Len(group[1]) |->
                                    fieldInstanceMap[group[1][c]].dbFieldName]
                     tuples == uniq([r \in 1..Len(main) |->
                                       [c \in 1..Len(columns) |-> main[r][columns[c]]]])
                 IN << [t \in 1..Len(tuples) |->
                          [group |-> tuples[t],
                           columns |-> statisticColumns(
                                           selectRows(main, columns, tuples[t]),
                                           fields[1])]] >>

\* the value of a column of a result row (undefined reads as null)
columnValue(row, key) ==
    LET at == {i \in 1..Len(row.columns) : row.columns[i].key = key}
    IN IF at = {} THEN NullValue ELSE row.columns[CHOOSE i \in at : TRUE].value

RECURSIVE totalEntries(_)
\* performAggregation: one entry per column of the ungrouped result row
totalEntries(columns) ==
    IF columns = <<>> THEN <<>>
    ELSE LET parts == split(columns[1].key, Underscore)
             fieldId == parts[1]
             aggFunc == IF Len(parts) >= 2 THEN parts[2] ELSE <<>>
             convertValue == formatConvertValue(columns[1].value, aggFunc)
             entry == [fieldId |-> fieldId,
                       total |-> IF aggFunc # <<>>
                                 THEN <<[value |-> convertValue, aggFunc |-> aggFunc]>>
                                 ELSE <<>>,
                       group |-> <<>>]
         IN (IF fieldId # <<>> THEN <<entry>> ELSE <<>>) \o totalEntries(Tail(columns))

\* lodash keyBy(entries, 'fieldId'): one entry per fieldId, the last one,
\* in the order the keys first occur
keyBy(entries) ==
    LET ids == uniq([i \in 1..Len(entries) |-> entries[i].fieldId])
    IN [k \in 1..Len(ids) |->
           LET last == CHOOSE i \in 1..Len(entries) :
                           /\ entries[i].fieldId = ids[k]
                           /\ \A j \in 1..Len(entries) :
                                  entries[j].fieldId = ids[k] => j <= i
           IN entries[last]]

\* group[groupId] = item, on the (optional) group map of an entry
setGroup(group, groupId, item) ==
    LET new == [groupId |-> groupId, value |-> item.value, aggFunc |-> item.aggFunc]
    IN IF group = <<>> THEN << <<new>> >>
       ELSE LET at == {i \in 1..Len(group[1]) : group[1][i].groupId = groupId}
            IN IF at = {} THEN <<Append(group[1], new)>>
               ELSE <<[group[1] EXCEPT ![CHOOSE i \in at : TRUE] = new]>>

RECURSIVE joinPieces(_)
\* Array.prototype.join('_') of strings
joinPieces(values) ==
    IF values = <<>> THEN <<>>
    ELSE IF Len(values) = 1 THEN values[1]
    ELSE values[1] \o <<Underscore>> \o joinPieces(Tail(values))

flagStringOf_FirstValue(groupFieldIds, level, row) ==
    convertValueToStringify(row.group[1])

flagStringOf_LastValue(groupFieldIds, level, row) ==
    groupFieldIds[level + 1] \o <<Underscore>>
        \o convertValueToStringify(row.group[level + 1])

\* flagString: the group field's id, then the stringified group values
flagStringOf(groupFieldIds, level, row) ==
    LET values == [c \in 1..(level + 1) |-> convertValueToStringify(row.group[c])]
        groupByValueString == joinPieces(values)
    IN groupFieldIds[level + 1] \o <<Underscore>> \o groupByValueString

groupIdOf(groupFieldIds, level, row) ==
    string2Hash(flagStringOf(groupFieldIds, level, row))

RECURSIVE mergeFields(_, _, _, _)
\* the loop over statisticFields for one result row
mergeFields(byFieldId, fields, groupId, row) ==
    IF fields = <<>> THEN byFieldId
    ELSE LET fieldId == fields[1].fieldId
             statisticFunc == fields[1].statisticFunc
             convertValue == formatConvertValue(
                                 columnValue(row, aggKey(fieldId, statisticFunc)),
                                 statisticFunc)
             at == CHOOSE i \in 1..Len(byFieldId) : byFieldId[i].fieldId = fieldId
             merged == [byFieldId EXCEPT ![at].group =
                            setGroup(@, groupId, [value |-> convertValue,
                                                  aggFunc |-> statisticFunc])]
         IN mergeFields(merged, Tail(fields), groupId, row)

RECURSIVE mergeRows(_, _, _, _, _)
\* the loop over the result rows of one level
mergeRows(byFieldId, fields, groupFieldIds, level, rows) ==
    IF rows = <<>> THEN byFieldId
    ELSE mergeRows(mergeFields(byFieldId, fields,
                               groupIdOf(groupFieldIds, level, rows[1]), rows[1]),
                   fields, groupFieldIds, level, Tail(rows))

\* the records a link cell already holds
linkedRecordIds == {"r1"}

\* recordService.buildLinkCandidateQuery: the rows the link cell can still take
buildLinkCandidateQuery(rows, filterLinkCellCandidate) ==
    LET keep(row) == row.id \notin linkedRecordIds
    IN SelectSeq(rows, keep)

\* recordService.buildLinkSelectedQuery: the rows the link cell holds
buildLinkSelectedQuery(rows, filterLinkCellSelected) ==
    LET keep(row) == row.id \in linkedRecordIds
    IN SelectSeq(rows, keep)

whereIn_Swapped(rows, ids, candidate) ==
    LET keep(row) == IF candidate # <<>> THEN row.id \in ids ELSE row.id \notin ids
    IN SelectSeq(rows, keep)

\* handleRowCount: whereNotIn(__id, ids) for link candidates, else whereIn
whereIn(rows, ids, candidate) ==
    LET keep(row) == IF candidate # <<>> THEN row.id \notin ids ELSE row.id \in ids
    IN SelectSeq(rows, keep)

\* getRowCount: SELECT COUNT(*), one result row
getRowCount(rows) == <<[count |-> Len(rows)]>>

handleRowCount(rows, query) ==
    LET filtered == IF filter # <<>>
                    THEN filterQuery(rows, fieldInstanceMap, filter[1]) ELSE rows
        searched == IF search # <<>> /\ search[1][3]
                    THEN searchQuery(filtered, fieldInstanceMapWithoutHiddenFields,
                                     search[1])
                    ELSE filtered
        selected == IF query.selectedRecordIds # <<>>
                    THEN whereIn(searched, query.selectedRecordIds[1],
                                 query.filterLinkCellCandidate)
                    ELSE searched
        candidates == IF query.filterLinkCellCandidate # <<>>
                      THEN buildLinkCandidateQuery(selected,
                                                   query.filterLinkCellCandidate[1])
                      ELSE selected
        linked == IF query.filterLinkCellSelected # <<>>
                  THEN buildLinkSelectedQuery(candidates,
                                              query.filterLinkCellSelected[1])
                  ELSE candidates
    IN getRowCount(linked)

\* performRowCount: Number(rawRowCountData[0]?.count ?? 0)
performRowCount(rows, query) ==
    LET rawRowCountData == handleRowCount(rows, query)
    IN IF rawRowCountData = <<>> THEN 0 ELSE rawRowCountData[1].count


----------------------------------------------------------------------------
(* The aggregation requests *)

RowA1 == [id |-> "r1", name |-> <<"A">>, kind |-> <<"x">>, amount |-> 1, qty |-> 1]
RowA2 == [id |-> "r2", name |-> <<"A">>, kind |-> <<"y">>, amount |-> 2, qty |-> 1]
RowB1 == [id |-> "r3", name |-> <<"B">>, kind |-> <<"x">>, amount |-> 2, qty |-> 2]
RowU1 == [id |-> "r4", name |-> <<"A", "_", "x">>, kind |-> <<"y">>,
          amount |-> 1, qty |-> 1]
RowU2 == [id |-> "r5", name |-> <<"A">>, kind |-> <<"x", "_", "y">>,
          amount |-> 2, qty |-> 1]
RowTables == {<<>>, <<RowA1, RowA2>>, <<RowA1, RowB1, RowA2>>, <<RowU1, RowU2, RowA2>>}

StatisticFields ==
    {[fieldId |-> <<"f1">>, statisticFunc |-> s] :
        s \in {Sum, Count, PercentFilled, PercentEmpty}}
    \cup {[fieldId |-> <<"f2">>, statisticFunc |-> s] :
        s \in {Sum, PercentUnique, PercentChecked, PercentUnChecked}}

\* undefined, or a non-empty list of pairs (getStatisticFields returns no empty list)
StatisticRequests ==
    {<<>>} \cup {<<l>> : l \in SeqUpTo(StatisticFields, MaxStats) \ {<<>>}}

\* undefined, or a list of distinct group fields
GroupRequests ==
    {<<>>} \cup {<<l>> : l \in {g \in SeqUpTo({<<"g1">>, <<"g2">>}, MaxGroup) :
                                  \A i, j \in 1..Len(g) : g[i] = g[j] => i = j}}

InitAgg ==
    /\ aggPc = "idle"
    /\ aggRows \in RowTables
    /\ statisticFields = <<>>
    /\ groupBy = <<>>
    /\ aggregations = <<>>
    /\ aggregationByFieldId = <<>>
    /\ aggLevel = 0
    /\ queries = <<>>
    /\ aggResult = <<>>
    /\ db = InitialDb(FALSE, FALSE, FALSE)
    /\ tx = EmptyTx
    /\ snapshot = db
    /\ pc = "idle"
    /\ tableId = "t1"
    /\ fieldRo = <<>>
    /\ batchFieldRos = <<>>
    /\ prepared = NoField
    /\ symmetricField = <<>>
    /\ thrown = NoError
    /\ filter = <<>>
    /\ search = <<>>
    /\ hiddenFields = {}
    /\ countPc = "idle"
    /\ queryRo = <<>>
    /\ rowCount = <<>>
    /\ fmtValue = NullValue
    /\ fmtFunc = <<>>
    /\ fmtResult = <<>>
    /\ indexPc = "idle"
    /\ indexRo = <<>>
    /\ viewColumnMeta = <<>>
    /\ projection = <<>>
    /\ located = <<>>
    /\ deletedIds = {}
    /\ recordIndex = <<>>

slice_Whole(list, end) == list

\* Array.prototype.slice(0, end)
slice(list, end) == SubSeq(list, 1, end)

\* performAggregation up to the call of performGroupedAggregation and the
\* early return of the latter
PerformAggregation ==
    /\ aggPc = "idle"
    /\ \E fields \in StatisticRequests, group \in GroupRequests :
          LET rawAggregationData == handleAggregation(aggRows, fields, <<>>)
              entries == IF rawAggregationData = <<>> \/ rawAggregationData[1] = <<>>
                         THEN <<>>
                         ELSE totalEntries(rawAggregationData[1][1].columns)
          IN /\ statisticFields' = fields
             /\ groupBy' = group
             /\ aggregations' = entries
             /\ queries' = IF rawAggregationData = <<>> THEN <<>>
                           ELSE <<[groupBy |-> <<>>, select |-> fields[1],
                                   from |-> main_table(aggRows)]>>
             /\ IF group = <<>> \/ fields = <<>>
                THEN /\ aggPc' = "done"
                     /\ aggResult' = <<entries>>
                     /\ aggregationByFieldId' = <<>>
                ELSE /\ aggPc' = "grouping"
                     /\ aggResult' = <<>>
                     /\ aggregationByFieldId' = keyBy(entries)
             /\ aggLevel' = 0
    /\ UNCHANGED <<aggRows, nonAggVars>>

\* one turn of the loop of performGroupedAggregation: the query of level i
\* and the merge of its rows
GroupLevel ==
    /\ aggPc = "grouping"
    /\ aggLevel < Len(groupBy[1])
    /\ LET levelGroupBy == slice(groupBy[1], aggLevel + 1)
           data == handleAggregation(aggRows, statisticFields, <<levelGroupBy>>)
       IN /\ queries' = Append(queries, [groupBy |-> levelGroupBy,
                                          select |-> statisticFields[1],
                                          from |-> main_table(aggRows)])
          /\ aggregationByFieldId' =
                 mergeRows(aggregationByFieldId, statisticFields[1], groupBy[1],
                           aggLevel, data[1])
    /\ aggLevel' = aggLevel + 1
    /\ UNCHANGED <<aggPc, aggRows, statisticFields, groupBy, aggregations, aggResult,
                   nonAggVars>>

\* return Object.values(aggregationByFieldId)
ReturnGrouped ==
    /\ aggPc = "grouping"
    /\ aggLevel = Len(groupBy[1])
    /\ aggResult' = <<aggregationByFieldId>>
    /\ aggPc' = "done"
    /\ UNCHANGED <<aggRows, statisticFields, groupBy, aggregations,
                   aggregationByFieldId, aggLevel, queries, nonAggVars>>

NextAgg ==
    \/ PerformAggregation
    \/ GroupLevel
    \/ ReturnGrouped

SpecAgg == InitAgg /\ [][NextAgg]_vars

----------------------------------------------------------------------------
(* Requests under a filter, a search and hidden fields: performAggregation  *)
(* and performRowCount                                                      *)

Filters == {<<>>, <<[fieldId |-> <<"f1">>, value |-> 2]>>}
Searches == {<<>>, <<<<"x", Undefined, FALSE>>>>, <<<<"x", Undefined, TRUE>>>>}
HiddenFields == {{}, {<<"g2">>}}
SelectedRecordIds == {<<>>, <<{}>>, <<{"r1", "r3"}>>}
QueryRos ==
    [selectedRecordIds : SelectedRecordIds,
     filterLinkCellCandidate : {<<>>, <<"lnk1">>},
     filterLinkCellSelected : {<<>>, <<"lnk1">>}]

InitSearch ==
    /\ aggPc = "idle"
    /\ aggRows \in {<<>>, <<RowA1, RowB1, RowA2>>}
    /\ statisticFields = <<>>
    /\ groupBy = <<>>
    /\ aggregations = <<>>
    /\ aggregationByFieldId = <<>>
    /\ aggLevel = 0
    /\ queries = <<>>
    /\ aggResult = <<>>
    /\ db = InitialDb(FALSE, FALSE, FALSE)
    /\ tx = EmptyTx
    /\ snapshot = db
    /\ pc = "idle"
    /\ tableId = "t1"
    /\ fieldRo = <<>>
    /\ batchFieldRos = <<>>
    /\ prepared = NoField
    /\ symmetricField = <<>>
    /\ thrown = NoError
    /\ filter \in Filters
    /\ search \in Searches
    /\ hiddenFields \in HiddenFields
    /\ countPc = "idle"
    /\ queryRo = <<>>
    /\ rowCount = <<>>
    /\ fmtValue = NullValue
    /\ fmtFunc = <<>>
    /\ fmtResult = <<>>
    /\ indexPc = "idle"
    /\ indexRo = <<>>
    /\ viewColumnMeta = <<>>
    /\ projection = <<>>
    /\ located = <<>>
    /\ deletedIds = {}
    /\ recordIndex = <<>>

PerformRowCount ==
    /\ countPc = "idle"
    /\ \E query \in QueryRos :
          /\ queryRo' = <<query>>
          /\ rowCount' = <<performRowCount(aggRows, query)>>
    /\ countPc' = "done"
    /\ UNCHANGED <<filter, search, hiddenFields, aggVars, fieldVars, formatVars,
                   indexVars>>

\* one request at a time
NextSearch ==
    \/ countPc = "idle" /\ PerformAggregation
    \/ GroupLevel
    \/ ReturnGrouped
    \/ aggPc = "idle" /\ PerformRowCount

SpecSearch == InitSearch /\ [][NextSearch]_vars

----------------------------------------------------------------------------
(* formatConvertValue on the values a store can return *)

DatePieces == {"2024-03-15", "2024-01-10", "2024-01-20", "2023-03-15"}

FormatValues ==
    {NullValue, NumberValue(3), DateValue(<<"2024-03-15">>)}
    \cup {StringValue(str) : str \in SeqUpTo(DatePieces \cup {Comma}, MaxPieces)}

FormatFuncs ==
    {<<>>, Sum, DateRangeOfMonths, PercentEmpty, PercentFilled, PercentUnique,
     PercentChecked, PercentUnChecked}

InitFormat ==
    /\ fmtValue \in FormatValues
    /\ fmtFunc \in FormatFuncs
    /\ fmtResult = <<>>
    /\ aggPc = "idle"
    /\ aggRows = <<>>
    /\ statisticFields = <<>>
    /\ groupBy = <<>>
    /\ aggregations = <<>>
    /\ aggregationByFieldId = <<>>
    /\ aggLevel = 0
    /\ queries = <<>>
    /\ aggResult = <<>>
    /\ db = InitialDb(FALSE, FALSE, FALSE)
    /\ tx = EmptyTx
    /\ snapshot = db
    /\ pc = "idle"
    /\ tableId = "t1"
    /\ fieldRo = <<>>
    /\ batchFieldRos = <<>>
    /\ prepared = NoField
    /\ symmetricField = <<>>
    /\ thrown = NoError
    /\ filter = <<>>
    /\ search = <<>>
    /\ hiddenFields = {}
    /\ countPc = "idle"
    /\ queryRo = <<>>
    /\ rowCount = <<>>
    /\ indexPc = "idle"
    /\ indexRo = <<>>
    /\ viewColumnMeta = <<>>
    /\ projection = <<>>
    /\ located = <<>>
    /\ deletedIds = {}
    /\ recordIndex = <<>>

FormatConvertValue ==
    /\ fmtResult = <<>>
    /\ fmtResult' = <<formatConvertValue(fmtValue, fmtFunc)>>
    /\ UNCHANGED <<fmtValue, fmtFunc, fieldVars, aggVars, searchVars, indexVars>>

NextFormat == FormatConvertValue

SpecFormat == InitFormat /\ [][NextFormat]_vars

----------------------------------------------------------------------------
(* getRecordIndexBySearchOrder *)

\* Object.values(fieldInstanceMap): the fields in the order of the map
fieldInstances == <<<<"f1">>, <<"f2">>, <<"g1">>, <<"g2">>>>

\* Number.MIN_SAFE_INTEGER, within the integers of TLC
MIN_SAFE_INTEGER == 0 - 2147483647

\* get(viewColumnMeta[id], ['hidden'])
hiddenIn(meta, id) ==
    meta # <<>> /\ id \in DOMAIN meta[1] /\ meta[1][id].hidden

\* viewColumnMeta?.[field.id]?.order ?? Number.MIN_SAFE_INTEGER
orderIn(meta, id) ==
    IF meta # <<>> /\ id \in DOMAIN meta[1] /\ meta[1][id].order # <<>>
    THEN meta[1][id].order[1]
    ELSE MIN_SAFE_INTEGER

\* the keys of fieldInstanceMapWithoutHiddenFields: no hidden field and, for
\* a projection that is not empty, no field outside it
searchFieldIds(meta, proj) ==
    {id \in DOMAIN fieldInstanceMap :
        /\ ~hiddenIn(meta, id)
        /\ (proj # <<>> /\ proj[1] # {}) => id \in proj[1]}

\* fieldsWithOrder: the fields not hidden and, for any projection, within
\* it, sorted by their order in the view (the sort is stable)
fieldsWithOrder(meta, proj) ==
    LET keep(id) == ~hiddenIn(meta, id) /\ (proj = <<>> \/ id \in proj[1])
        kept == SelectSeq(fieldInstances, keep)
        rank(i) == 1 + Cardinality({j \in 1..Len(kept) :
                        \/ orderIn(meta, kept[j]) < orderIn(meta, kept[i])
                        \/ orderIn(meta, kept[j]) = orderIn(meta, kept[i]) /\ j < i})
    IN [k \in 1..Len(kept) |-> kept[CHOOSE i \in 1..Len(kept) : rank(i) = k]]

RECURSIVE sortsBefore(_, _, _)
\* dbProvider.sortQuery: the first row comes before the second by the keys
sortsBefore(keys, a, b) ==
    IF keys = <<>> THEN FALSE
    ELSE LET column == fieldInstanceMap[keys[1].fieldId].dbFieldName
         IN IF a[column] = b[column] THEN sortsBefore(Tail(keys), a, b)
            ELSE IF keys[1].order = "asc" THEN a[column] < b[column]
            ELSE a[column] > b[column]

\* [...(groupBy ?? []), ...(orderBy ?? [])]
sortKeys(ro) ==
    (IF ro.groupBy = <<>> THEN <<>> ELSE ro.groupBy[1])
        \o (IF ro.orderBy = <<>> THEN <<>> ELSE ro.orderBy[1])

\* recordService.buildFilterSortQuery: the rows of the view in its order, by
\* the group and sort keys and then in the order of insertion, the order in
\* which the table holds them
viewRecords(rows, ro) ==
    LET rank(i) == 1 + Cardinality({j \in 1..Len(rows) :
                        \/ sortsBefore(sortKeys(ro), rows[j], rows[i])
                        \/ ~sortsBefore(sortKeys(ro), rows[i], rows[j]) /\ j < i})
    IN [k \in 1..Len(rows) |-> rows[CHOOSE i \in 1..Len(rows) : rank(i) = k]]

\* dbProvider.searchCountQuery: one match per row and field of the given
\* fields whose cell's text holds the search value; basic is the row's place
\* in the order of insertion (recordService.getBasicOrderIndexField)
searchCountQuery(rows, fieldIds, srch) ==
    {m \in {[row |-> rows[r], basic |-> r,
             dbFieldName |-> fieldInstanceMap[id].dbFieldName] :
               r \in 1..Len(rows),
               id \in {f \in fieldIds : fieldInstanceMap[f].dbFieldName \in textColumns}} :
        \E i \in 1..Len(m.row[m.dbFieldName]) : m.row[m.dbFieldName][i] = srch[1]}

\* step 1 of getRecordIndexBySearchOrder: the query returns no row or the row
\* at the offset index - 1 of the matches ordered by the group and sort keys
\* (the sort keys twice), the basic order index and the CASE priorities (an
\* ascending order ends with its nulls); fieldId is the COALESCE of the CASEs.
\* Without any CASE the query is COALESCE(), which the store rejects or
\* evaluates to null
findRecord(rows, meta, proj, ro, rejects) ==
    LET fields == fieldsWithOrder(meta, proj)
        matches == searchCountQuery(rows, searchFieldIds(meta, proj), ro.search)
        cases(m) == {k \in 1..Len(fields) :
                        fieldInstanceMap[fields[k]].dbFieldName = m.dbFieldName}
        priority(m) == IF cases(m) = {} THEN Len(fields) + 1
                       ELSE CHOOSE k \in cases(m) : \A j \in cases(m) : k <= j
        keys == sortKeys(ro) \o (IF ro.orderBy = <<>> THEN <<>> ELSE ro.orderBy[1])
        before(m, n) ==
            \/ sortsBefore(keys, m.row, n.row)
            \/ /\ ~sortsBefore(keys, n.row, m.row)
               /\ \/ m.basic < n.basic
                  \/ m.basic = n.basic /\ priority(m) < priority(n)
        at == {m \in matches :
                  Cardinality({n \in matches : before(n, m)}) = ro.index - 1}
    IN IF fields = <<>> /\ rejects THEN [error |-> TRUE, rows |-> <<>>]
       ELSE IF at = {} THEN [error |-> FALSE, rows |-> <<>>]
       ELSE LET m == CHOOSE n \in at : TRUE
            IN [error |-> FALSE,
                rows |-> <<[id |-> m.row.id,
                            fieldId |-> IF cases(m) = {} THEN <<>>
                                        ELSE <<fields[priority(m)]>>]>>]

\* step 2 of getRecordIndexBySearchOrder: ROW_NUMBER() of the record over
\* the rows of the view
findIndex(rows, ro, recordId) ==
    LET view == viewRecords(rows, ro)
        at == {i \in 1..Len(view) : view[i].id = recordId}
    IN IF at = {} THEN <<>> ELSE <<[row_num |-> CHOOSE i \in at : TRUE]>>

RowX == [id |-> "r6", name |-> <<"x">>, kind |-> <<"x">>, amount |-> 2, qty |-> 1]

ColumnMetas ==
    {<<>>,
     <<[id \in {<<"g1">>, <<"g2">>} |->
           [hidden |-> FALSE, order |-> IF id = <<"g1">> THEN <<2>> ELSE <<1>>]]>>,
     <<[id \in {<<"g1">>} |-> [hidden |-> FALSE, order |-> <<1>>]]>>,
     <<[id \in {<<"g1">>, <<"g2">>} |->
           [hidden |-> id = <<"g2">>, order |-> <<1>>]]>>}

\* undefined, or the set of the ids of a list of fields
Projections == {<<>>, <<{}>>, <<{<<"g1">>}>>, <<{<<"g1">>, <<"g2">>}>>}

IndexRos ==
    [search : {<<"x", Undefined, TRUE>>, <<"A", Undefined, TRUE>>},
     index : 1..MaxIndex,
     groupBy : {<<>>, <<<<[fieldId |-> <<"f2">>, order |-> "asc"]>>>>},
     orderBy : {<<>>, <<<<[fieldId |-> <<"f1">>, order |-> "desc"]>>>>}]

InitIndex ==
    /\ indexPc = "idle"
    /\ indexRo = <<>>
    /\ viewColumnMeta = <<>>
    /\ projection = <<>>
    /\ located = <<>>
    /\ deletedIds = {}
    /\ recordIndex = <<>>
    /\ aggPc = "idle"
    /\ aggRows = <<RowA1, RowB1, RowX>>
    /\ statisticFields = <<>>
    /\ groupBy = <<>>
    /\ aggregations = <<>>
    /\ aggregationByFieldId = <<>>
    /\ aggLevel = 0
    /\ queries = <<>>
    /\ aggResult = <<>>
    /\ db = InitialDb(FALSE, FALSE, FALSE)
    /\ tx = EmptyTx
    /\ snapshot = db
    /\ pc = "idle"
    /\ tableId = "t1"
    /\ fieldRo = <<>>
    /\ batchFieldRos = <<>>
    /\ prepared = NoField
    /\ symmetricField = <<>>
    /\ thrown = NoError
    /\ filter = <<>>
    /\ search = <<>>
    /\ hiddenFields = {}
    /\ countPc = "idle"
    /\ queryRo = <<>>
    /\ rowCount = <<>>
    /\ fmtValue = NullValue
    /\ fmtFunc = <<>>
    /\ fmtResult = <<>>

\* the rows of the table that are not deleted
currentRows ==
    LET keep(row) == row.id \notin deletedIds
    IN SelectSeq(aggRows, keep)

\* getRecordIndexBySearchOrder up to the result of the first query
FindRecord ==
    /\ indexPc = "idle"
    /\ \E ro \in IndexRos, meta \in ColumnMetas, proj \in Projections,
          rejects \in BOOLEAN :
          LET result == findRecord(currentRows, meta, proj, ro, rejects)
          IN /\ indexRo' = <<ro>>
             /\ viewColumnMeta' = meta
             /\ projection' = proj
             /\ located' = <<result>>
             /\ IF result.error
                THEN indexPc' = "done" /\ recordIndex' = <<[kind |-> "error"]>>
                ELSE IF result.rows = <<>>
                THEN indexPc' = "done" /\ recordIndex' = <<[kind |-> "null"]>>
                ELSE indexPc' = "located" /\ recordIndex' = <<>>
    /\ UNCHANGED <<deletedIds, fieldVars, aggVars, searchVars, formatVars>>

\* another request deletes a record between the two queries
DeleteRecord ==
    /\ indexPc = "located"
    /\ deletedIds = {}
    /\ \E r \in 1..Len(aggRows) : deletedIds' = {aggRows[r].id}
    /\ UNCHANGED <<indexPc, indexRo, viewColumnMeta, projection, located, recordIndex,
                   fieldVars, aggVars, searchVars, formatVars>>

\* the second query and the return of getRecordIndexBySearchOrder
FindIndex ==
    /\ indexPc = "located"
    /\ LET indexResult == findIndex(currentRows, indexRo[1], located[1].rows[1].id)
       IN recordIndex' =
              IF indexResult = <<>> THEN <<[kind |-> "null"]>>
              ELSE <<[kind |-> "found", index |-> indexResult[1].row_num,
                      fieldId |-> located[1].rows[1].fieldId]>>
    /\ indexPc' = "done"
    /\ UNCHANGED <<indexRo, viewColumnMeta, projection, located, deletedIds,
                   fieldVars, aggVars, searchVars, formatVars>>

NextIndex ==
    \/ FindRecord
    \/ DeleteRecord
    \/ FindIndex

SpecIndex == InitIndex /\ [][NextIndex]_vars

----------------------------------------------------------------------------
(* Properties of the aggregation *)

\* the entries of the result with a total for the pair
TotalsOf(pair) ==
    {i \in 1..Len(aggResult[1]) :
        /\ aggResult[1][i].fieldId = pair.fieldId
        /\ aggResult[1][i].total # <<>>
        /\ aggResult[1][i].total[1].aggFunc = pair.statisticFunc}

\* C10: for every requested (fieldId, statisticFunc) pair the result of
\* performAggregation holds a total entry of that field with that aggFunc,
\* without groupBy and with a groupBy of any length; with groupBy, the
\* entry's group map holds the pair's value for every group of every level.
C10_EveryPairReported ==
    (aggPc = "done" /\ statisticFields # <<>>) =>
        \A p \in 1..Len(statisticFields[1]) :
            LET pair == statisticFields[1][p]
            IN /\ TotalsOf(pair) # {}
               /\ groupBy # <<>> =>
                      \A level \in 0..(Len(groupBy[1]) - 1) :
                          LET rows == handleAggregation(
                                          aggRows, statisticFields,
                                          <<SubSeq(groupBy[1], 1, level + 1)>>)[1]
                          IN \A r \in 1..Len(rows) :
                                 \E i \in TotalsOf(pair) :
                                     /\ aggResult[1][i].group # <<>>
                                     /\ \E g \in 1..Len(aggResult[1][i].group[1]) :
                                            LET item == aggResult[1][i].group[1][g]
                                            IN /\ item.groupId =
                                                      groupIdOf(groupBy[1], level, rows[r])
                                               /\ item.aggFunc = pair.statisticFunc

\* the request's search is applied
SearchApplied == search # <<>> /\ search[1][3]

\* the row passes the filter of the request
PassesFilter(row) ==
    filter # <<>> => row[fieldInstanceMap[filter[1].fieldId].dbFieldName] = filter[1].value

\* the text of a cell of the field holds the search value
MatchesIn(row, id) ==
    /\ fieldInstanceMap[id].dbFieldName \in textColumns
    /\ \E i \in 1..Len(row[fieldInstanceMap[id].dbFieldName]) :
           row[fieldInstanceMap[id].dbFieldName][i] = search[1][1]

\* the ids of the rows under the filter and, when it is applied, with the
\* search value in a field the view does not hide
SearchedIds ==
    {aggRows[r].id : r \in {k \in 1..Len(aggRows) :
        /\ PassesFilter(aggRows[k])
        /\ SearchApplied =>
               \E id \in DOMAIN fieldInstanceMap \ hiddenFields :
                   MatchesIn(aggRows[k], id)}}

IdsOf(rows) == {rows[r].id : r \in 1..Len(rows)}

\* the query of the row-count request restricts nothing
PlainQuery ==
    /\ queryRo[1].selectedRecordIds = <<>>
    /\ queryRo[1].filterLinkCellCandidate = <<>>
    /\ queryRo[1].filterLinkCellSelected = <<>>

\* C11: the aggregation compiler and the row-count compiler apply search
\* identically: the rows aggregated by every aggregate query, and the rows
\* counted, are the rows under the filter, restricted by the search only when
\* its third element is set and then to the rows with the value in a field
\* the view does not hide.
C11_SearchOverVisibleFields ==
    /\ \A q \in 1..Len(queries) : IdsOf(queries[q].from) = SearchedIds
    /\ (countPc = "done" /\ PlainQuery) => rowCount[1] = Cardinality(SearchedIds)

\* the ids the row-count request is to count
CountedIds ==
    {id \in SearchedIds :
        /\ queryRo[1].selectedRecordIds # <<>> =>
               IF queryRo[1].filterLinkCellCandidate # <<>>
               THEN id \notin queryRo[1].selectedRecordIds[1]
               ELSE id \in queryRo[1].selectedRecordIds[1]
        /\ queryRo[1].filterLinkCellCandidate # <<>> => id \notin linkedRecordIds
        /\ queryRo[1].filterLinkCellSelected # <<>> => id \in linkedRecordIds}

\* C12: performRowCount with selectedRecordIds counts, with
\* filterLinkCellCandidate, no record of selectedRecordIds and, without it,
\* only records of selectedRecordIds; the count is over the rows under the
\* filter and the search, and is 0 when no row matches.
C12_SelectedRecordIds ==
    (countPc = "done" /\ queryRo[1].selectedRecordIds # <<>>) =>
        /\ rowCount[1] = Cardinality(CountedIds)
        /\ CountedIds = {} => rowCount[1] = 0

C12_Witness ==
    /\ countPc = "done"
    /\ queryRo[1].selectedRecordIds = <<{"r1", "r3"}>>
    /\ queryRo[1].filterLinkCellCandidate # <<>>
    /\ SearchApplied
    /\ filter = <<>>
    /\ rowCount = <<0>>
    /\ Len(aggRows) = 3

\* a grouped aggregation has returned
GroupedDone == aggPc = "done" /\ statisticFields # <<>> /\ groupBy # <<>>

Levels == 0..(Len(groupBy[1]) - 1)

\* the result rows of a level of the request
LevelRows(level) ==
    handleAggregation(aggRows, statisticFields, <<SubSeq(groupBy[1], 1, level + 1)>>)[1]

\* the tuples differ in exactly one group value
DifferInOne(t1, t2) ==
    \E k \in 1..Len(t1) :
        /\ t1[k] # t2[k]
        /\ \A j \in 1..Len(t1) : j # k => t1[j] = t2[j]

\* the ids of the groups of the field's entries of the result
GroupIdsOf(fieldId) ==
    UNION {{aggResult[1][e].group[1][g].groupId :
               g \in 1..Len(aggResult[1][e].group[1])} :
           e \in {i \in 1..Len(aggResult[1]) : /\ aggResult[1][i].fieldId = fieldId
                                               /\ aggResult[1][i].group # <<>>}}

\* C13: the groupId of a result row of level i is the hash of the string made
\* of the level's group field id and the row's group values of the levels
\* 0..i, so equal ids and values give equal groupIds; and two rows of a level
\* that differ in exactly one group value (at any level k <= i) have
\* different strings to hash.
C13_GroupIdOfValues ==
    GroupedDone =>
        \A level \in Levels :
            \A r1, r2 \in 1..Len(LevelRows(level)) :
                LET row1 == LevelRows(level)[r1]
                    row2 == LevelRows(level)[r2]
                IN /\ \A p \in 1..Len(statisticFields[1]) :
                          string2Hash(flagStringOf(groupBy[1], level, row1))
                              \in GroupIdsOf(statisticFields[1][p].fieldId)
                   /\ row1.group = row2.group =>
                          groupIdOf(groupBy[1], level, row1)
                              = groupIdOf(groupBy[1], level, row2)
                   /\ DifferInOne(row1.group, row2.group) =>
                          flagStringOf(groupBy[1], level, row1)
                              # flagStringOf(groupBy[1], level, row2)

C13_Witness ==
    /\ GroupedDone
    /\ Len(groupBy[1]) = 2
    /\ \E r1, r2 \in 1..Len(LevelRows(1)) :
           /\ LevelRows(1)[r1].group[1] # LevelRows(1)[r2].group[1]
           /\ LevelRows(1)[r1].group[2] = LevelRows(1)[r2].group[2]
           /\ \E i \in 1..Len(LevelRows(1)[r1].group[1]) :
                  LevelRows(1)[r1].group[1][i] = Underscore

PercentFuncs ==
    {PercentEmpty, PercentFilled, PercentUnique, PercentChecked, PercentUnChecked}

\* the value reported for a statistic, given the value the store returned
Reported(value, aggFunc, stored) ==
    IF aggFunc \in PercentFuncs
    THEN /\ value # NullValue
         /\ stored = NullValue => value = NumberValue(0)
    ELSE stored = NullValue => value = NullValue

\* the item of a group map is the report of a result row of some level
GroupItemReported(fieldId, item) ==
    \E level \in Levels :
        \E r \in 1..Len(LevelRows(level)) :
            /\ groupIdOf(groupBy[1], level, LevelRows(level)[r]) = item.groupId
            /\ Reported(item.value, item.aggFunc,
                        columnValue(LevelRows(level)[r], aggKey(fieldId, item.aggFunc)))

\* C14: in the result of performAggregation the value of each of the five
\* percent statistics is never null, in the total and in every group entry,
\* and is 0 where the store returned null; the value of any other statistic
\* is null where the store returned null.
C14_PercentNeverNull ==
    (aggPc = "done" /\ aggResult # <<>>) =>
        \A e \in 1..Len(aggResult[1]) :
            LET entry == aggResult[1][e]
            IN /\ entry.total # <<>> =>
                      Reported(entry.total[1].value, entry.total[1].aggFunc,
                               statisticValue(main_table(aggRows), entry.fieldId,
                                              entry.total[1].aggFunc))
               /\ entry.group # <<>> =>
                      \A g \in 1..Len(entry.group[1]) :
                          GroupItemReported(entry.fieldId, entry.group[1][g])

C14_Witness ==
    /\ GroupedDone
    /\ \E e \in 1..Len(aggResult[1]) :
           /\ aggResult[1][e].total # <<>>
           /\ aggResult[1][e].total[1] =
                  [value |-> NumberValue(0), aggFunc |-> PercentChecked]
           /\ aggResult[1][e].group # <<>>
           /\ \E g \in 1..Len(aggResult[1][e].group[1]) :
                  /\ aggResult[1][e].group[1][g].value = NumberValue(0)
                  /\ aggResult[1][e].group[1][g].aggFunc = PercentChecked

\* the place of the first comma of the string, 0 if it has none
FirstComma(str) ==
    IF \E i \in 1..Len(str) : str[i] = Comma
    THEN CHOOSE i \in 1..Len(str) : str[i] = Comma /\ \A j \in 1..(i - 1) : str[j] # Comma
    ELSE 0

\* the pieces of "<max>,<min>": what is before the first comma, and what is
\* after it up to the next comma
MaxSide(str) ==
    IF FirstComma(str) = 0 THEN str ELSE SubSeq(str, 1, FirstComma(str) - 1)
MinSide(str) ==
    IF FirstComma(str) = 0 THEN <<>>
    ELSE LET rest == SubSeq(str, FirstComma(str) + 1, Len(str))
         IN IF FirstComma(rest) = 0 THEN rest
            ELSE SubSeq(rest, 1, FirstComma(rest) - 1)

\* the day count of a date, months of 31 days: orders dates as the calendar
Days(date) == (date[1] * 12 + date[2]) * 31 + date[3]

\* the date n months later
AddMonths(date, n) ==
    LET months == date[1] * 12 + (date[2] - 1) + n
    IN <<months \div 12, (months % 12) + 1, date[3]>>

\* the whole number of months from min to max: the most months that, added
\* to the earlier date, do not pass the later one
WholeMonths(max, min) ==
    IF Days(min) <= Days(max)
    THEN CHOOSE n \in 0..24 :
             /\ Days(AddMonths(min, n)) <= Days(max)
             /\ Days(AddMonths(min, n + 1)) > Days(max)
    ELSE 0 - (CHOOSE n \in 0..24 :
                 /\ Days(AddMonths(max, n)) <= Days(min)
                 /\ Days(AddMonths(max, n + 1)) > Days(min))

\* C15: for DateRangeOfMonths, formatConvertValue turns the string
\* "<max>,<min>" of two dates into the whole number of months from min to
\* max ("2024-03-15,2024-01-10" gives 2), and gives 0 when a side is missing:
\* an empty max, an empty min, or no comma.
C15_DateRangeOfMonths ==
    (fmtResult # <<>> /\ fmtFunc = DateRangeOfMonths /\ fmtValue.type = "string") =>
        LET max == MaxSide(fmtValue.str)
            min == MinSide(fmtValue.str)
        IN /\ (max = <<>> \/ min = <<>>) => fmtResult[1] = NumberValue(0)
           /\ (Len(max) = 1 /\ Len(min) = 1) =>
                  fmtResult[1] = NumberValue(WholeMonths(dayjs(max), dayjs(min)))
           /\ fmtValue.str = <<"2024-03-15", Comma, "2024-01-10">> =>
                  fmtResult[1] = NumberValue(2)

C15_Witness ==
    /\ fmtFunc = DateRangeOfMonths
    /\ fmtValue = StringValue(<<"2024-03-15", Comma, "2024-01-10">>)
    /\ fmtResult = <<NumberValue(2)>>

\* the aggregate queries of the request, in order: none without statistic
\* fields, else the ungrouped one and then one per group level
ExpectedQueries ==
    IF statisticFields = <<>> THEN <<>>
    ELSE [q \in 1..(1 + IF groupBy = <<>> THEN 0 ELSE Len(groupBy[1])) |->
             [groupBy |-> IF q = 1 THEN <<>>
                          ELSE [c \in 1..(q - 1) |-> groupBy[1][c]],
              select |-> statisticFields[1],
              from |-> main_table(aggRows)]]

\* C17: performAggregation issues its store queries in a fixed sequence: none
\* (and an empty result) without statistic fields, also with a groupBy; one
\* ungrouped query with statistic fields and no groupBy; with a groupBy of
\* length L >= 1 the ungrouped query and then L grouped queries, the i-th by
\* the first i + 1 group fields in order, all with the same statistic fields
\* over the same filtered relation.
C17_QuerySequence ==
    /\ aggPc # "idle" =>
           /\ Len(queries) <= Len(ExpectedQueries)
           /\ \A q \in 1..Len(queries) : queries[q] = ExpectedQueries[q]
    /\ aggPc = "grouping" => Len(queries) = aggLevel + 1
    /\ aggPc = "done" =>
           /\ queries = ExpectedQueries
           /\ statisticFields = <<>> => aggResult = << <<>> >>

C17_Witness ==
    /\ aggPc = "done"
    /\ statisticFields # <<>>
    /\ groupBy # <<>>
    /\ Len(groupBy[1]) = 2
    /\ Len(queries) = 3
    /\ queries[3].groupBy = groupBy[1]
    /\ filter # <<>>
    /\ Len(queries[3].from) = 2

RECURSIVE mergeLevels(_, _)
\* the merge of the levels' rows in the given order of the levels
mergeLevels(byFieldId, order) ==
    IF order = <<>> THEN byFieldId
    ELSE mergeLevels(mergeRows(byFieldId, statisticFields[1], groupBy[1], order[1],
                               LevelRows(order[1])),
                     Tail(order))

\* the group map of each field of the merged entries
GroupMaps(byFieldId) ==
    {[fieldId |-> byFieldId[e].fieldId,
      group |-> IF byFieldId[e].group = <<>> THEN {}
                ELSE {byFieldId[e].group[1][g] : g \in 1..Len(byFieldId[e].group[1])}] :
        e \in 1..Len(byFieldId)}

\* the orders in which the levels can be merged
LevelOrders ==
    {order \in [1..Len(groupBy[1]) -> Levels] :
        \A i, j \in 1..Len(groupBy[1]) : order[i] = order[j] => i = j}

FlagStrings(level) ==
    {flagStringOf(groupBy[1], level, LevelRows(level)[r]) :
        r \in 1..Len(LevelRows(level))}

\* C19: within one group level two result rows with different tuples of
\* group values never have the same pre-hash key string, so the group map of
\* a field has one entry per result row of each level.
C19_DistinctKeyPerTuple ==
    GroupedDone =>
        /\ \A level \in Levels :
               \A r1, r2 \in 1..Len(LevelRows(level)) :
                   LevelRows(level)[r1].group # LevelRows(level)[r2].group =>
                       flagStringOf(groupBy[1], level, LevelRows(level)[r1])
                           # flagStringOf(groupBy[1], level, LevelRows(level)[r2])
        /\ \A p \in 1..Len(statisticFields[1]) :
               \A level \in Levels :
                   Cardinality(GroupIdsOf(statisticFields[1][p].fieldId)
                                   \cap {string2Hash(f) : f \in FlagStrings(level)})
                       = Len(LevelRows(level))

\* the field is visible: not hidden in the view and within the projection
VisibleField(id) ==
    /\ ~hiddenIn(viewColumnMeta, id)
    /\ projection # <<>> => id \in projection[1]

\* the matches of the request: a row of the table and a visible field whose
\* cell's text holds the search value
IndexMatches ==
    {m \in (1..Len(aggRows)) \X DOMAIN fieldInstanceMap :
        /\ VisibleField(m[2])
        /\ fieldInstanceMap[m[2]].dbFieldName \in textColumns
        /\ \E i \in 1..Len(aggRows[m[1]][fieldInstanceMap[m[2]].dbFieldName]) :
               aggRows[m[1]][fieldInstanceMap[m[2]].dbFieldName][i]
                   = indexRo[1].search[1]}

\* the first row of the table comes before the second in the view: by the
\* group and sort keys, then in the order of insertion
ViewEarlier(r1, r2) ==
    \/ sortsBefore(sortKeys(indexRo[1]), aggRows[r1], aggRows[r2])
    \/ ~sortsBefore(sortKeys(indexRo[1]), aggRows[r2], aggRows[r1]) /\ r1 < r2

\* the place of a field in the list of the fields
FieldPlace(id) == CHOOSE k \in 1..Len(fieldInstances) : fieldInstances[k] = id

\* the first field comes before the second in column order, a field
\* without an explicit order before the others
ColumnEarlier(f1, f2) ==
    LET explicit(f) == /\ viewColumnMeta # <<>>
                       /\ f \in DOMAIN viewColumnMeta[1]
                       /\ viewColumnMeta[1][f].order # <<>>
    IN \/ ~explicit(f1) /\ explicit(f2)
       \/ /\ explicit(f1) /\ explicit(f2)
          /\ viewColumnMeta[1][f1].order[1] < viewColumnMeta[1][f2].order[1]
       \/ /\ explicit(f1) = explicit(f2)
          /\ explicit(f1) =>
                 viewColumnMeta[1][f1].order[1] = viewColumnMeta[1][f2].order[1]
          /\ FieldPlace(f1) < FieldPlace(f2)

MatchEarlier(m, n) ==
    \/ ViewEarlier(m[1], n[1])
    \/ m[1] = n[1] /\ ColumnEarlier(m[2], n[2])

\* the 1-based position of the row in the view, among the rows not deleted
ViewPosition(r) ==
    1 + Cardinality({q \in 1..Len(aggRows) :
                        aggRows[q].id \notin deletedIds /\ ViewEarlier(q, r)})

\* C16: getRecordIndexBySearchOrder with a search returns null when there are
\* fewer matches than index; else the index-th match in the order of the
\* view (group and sort keys, then insertion order), then of the columns,
\* with the id of its field, a visible field, and the 1-based position of its
\* row in the view, or null if the second query does not find the row.
C16_IndexthMatch ==
    indexPc = "done" =>
        IF Cardinality(IndexMatches) < indexRo[1].index
        THEN recordIndex[1] = [kind |-> "null"]
        ELSE LET m == CHOOSE n \in IndexMatches :
                          Cardinality({k \in IndexMatches : MatchEarlier(k, n)})
                              = indexRo[1].index - 1
             IN IF aggRows[m[1]].id \in deletedIds
                THEN recordIndex[1] = [kind |-> "null"]
                ELSE recordIndex[1] = [kind |-> "found", index |-> ViewPosition(m[1]),
                                       fieldId |-> <<m[2]>>]

====
